---- MODULE Spec2Model ----
(***************************************************************************)
(* State-machine model of EmulatedTracker (src/src/lib.rs).                *)
(*                                                                         *)
(* Actors:                                                                 *)
(*   - the caller task, which runs init(), deinit(), add_sensor() and the  *)
(*     send_* operations one after the other (init() takes &mut self, so   *)
(*     no other method runs while init()'s select loop is running);        *)
(*   - one Heartbeat Emitter task per start_heartbeat() spawn;             *)
(*   - one Liveness Watchdog task per init() that got past the bind;       *)
(*   - the environment: the server's datagrams, the transport's send       *)
(*     outcomes, the discovery interval and the passing of time.           *)
(*                                                                         *)
(* Every `lock().await` is a step of its own (the lock must be free);      *)
(* the critical section and the release form the next step.  recv_from,    *)
(* the sleeps and the interval tick are steps of their own.  A send_to     *)
(* that nothing in the same task can interrupt ends the step it belongs    *)
(* to (the tick handler, the emitter's round, send_packet() of the         *)
(* caller); the send_to of the receive branch is a step of its own,        *)
(* because select! can drop that branch while the send is pending.         *)
(*                                                                         *)
(* last_received_packet_time is written by the receive branch and read    *)
(* through get_state() alone; it is left out.  A panic ends the run.       *)
(***************************************************************************)
EXTENDS Integers, Sequences, FiniteSets, TLC

(***************************************************************************)
(* Bounds of the model.                                                    *)
(***************************************************************************)
\* successful binds (each spawns one emitter and one watchdog)
MaxInits == 2
\* cap of the u64 packet_number counter
MaxPacketNumber == 3
\* add_sensor calls
MaxAddCalls == 2
\* successful binds in the runs checked for the progress of lock requests
MaxLockSessions == 1

\* server_timeout; the clock of the model ticks once per server_timeout
ServerTimeout == 1

\* `as u8` of add_sensor
U8Size == 256

Tasks == 1..MaxInits
Challenges == {1, 2}

StatusValues == {"initializing", "idle", "connected-to-server"}

TelemetryKinds ==
    {"RotationData", "Acceleration", "Battery", "Temperature",
     "SignalStrength", "MagAccuracy", "UserAction"}

\* what recv_from can hand to the receive branch
DatagramKinds ==
    {"Heartbeat", "Ping", "HandshakeResponse", "Discovery", "Unknown",
     "Malformed", "RecvError"}

NoDatagram == [kind |-> "none", challenge |-> 0]
Datagrams ==
    {[kind |-> k, challenge |-> 0] : k \in DatagramKinds \ {"Ping"}}
        \cup {[kind |-> "Ping", challenge |-> c] : c \in Challenges}

NoPacket == [kind |-> "none", seq |-> 0, challenge |-> 0]
Pkt(k, s, c) == [kind |-> k, seq |-> s, challenge |-> c]

NoResult == [op |-> "none", value |-> "none"]
Ret(op, v) == [op |-> op, value |-> v]

Free == <<"free", 0>>
Caller == <<"caller", 0>>
Em(e) == <<"emitter", e>>
Wd(w) == <<"watchdog", w>>

VARIABLES
    \* TrackerState, behind Arc<Mutex<..>>
    status, packet_number,
    \* EmulatedTracker fields
    socket, sensors, statusBroadcast,
    \* the two kinds of mutex
    stateLock, lastHeartbeatLock,
    \* bookkeeping of spawns: number of sockets bound so far
    inits,
    \* Heartbeat Emitter tasks
    emPc,
    \* Liveness Watchdog tasks: position, remaining sleep, elapsed since last_heartbeat
    wdPc, wdSleep, elapsed,
    \* caller task: position, operation in progress, its packet number and sensor id,
    \* the datagram being processed, the last value returned
    callerPc, opKind, opSeq, opSensorId, rx, result,
    \* outputs of the last step: packet handed to the socket, value published
    wire, pubEvent,
    \* history: last successful send_*, draws by others since then
    \* add_sensor calls made, calls that returned Ok, registry length at the last
    \* deinit() that released the socket
    lastSendSeq, otherDraws, opGap, addCalls, addOk, sensorsAtDeinit,
    \* history: the packet numbers stamped on packets handed to send_to so far
    usedSeqs

vars ==
    <<status, packet_number, socket, sensors, statusBroadcast, stateLock,
      lastHeartbeatLock, inits, emPc, wdPc, wdSleep, elapsed, callerPc, opKind,
      opSeq, opSensorId, rx, result, wire, pubEvent, lastSendSeq, otherDraws,
      opGap, addCalls, addOk, sensorsAtDeinit, usedSeqs>>

trackerVars == <<status, packet_number, socket, sensors, statusBroadcast>>
lockVars == <<stateLock, lastHeartbeatLock>>
emitterVars == <<emPc>>
watchdogVars == <<wdPc, wdSleep>>
callVars == <<opKind, opSeq, opSensorId, rx>>
historyVars ==
    <<lastSendSeq, otherDraws, opGap, addCalls, addOk, sensorsAtDeinit, usedSeqs>>

Running == callerPc # "panicked"

Silent == wire' = NoPacket /\ pubEvent' = "none" /\ result' = NoResult

Init ==
    /\ status = "initializing"
    /\ packet_number = 0
    /\ socket = 0
    /\ sensors = <<>>
    /\ statusBroadcast = "initializing"
    /\ stateLock = Free
    /\ lastHeartbeatLock = [w \in Tasks |-> FALSE]
    /\ inits = 0
    /\ emPc = [e \in Tasks |-> "unborn"]
    /\ wdPc = [w \in Tasks |-> "unborn"]
    /\ wdSleep = [w \in Tasks |-> 0]
    /\ elapsed = [w \in Tasks |-> 0]
    /\ callerPc = "idle"
    /\ opKind = "none"
    /\ opSeq = 0
    /\ opSensorId = 0
    /\ rx = NoDatagram
    /\ result = NoResult
    /\ wire = NoPacket
    /\ pubEvent = "none"
    /\ lastSendSeq = 0
    /\ otherDraws = 0
    /\ opGap = 0
    /\ addCalls = 0
    /\ addOk = 0
    /\ sensorsAtDeinit = 0
    /\ usedSeqs = {}


(***************************************************************************)
(* Pure pieces of the code.                                                *)
(***************************************************************************)
\* (variant: the test compares with the wrong status)
InitIsNoopOnlyWhenIdle(st) == st = "idle"

\* init(): `if state.status != "initializing" { return Ok(()) }`
InitIsNoop(st) == st # "initializing"

\* deinit(): `if state.status == "initializing" { return Ok(()) }`
DeinitIsNoop(st) == st = "initializing"

\* (variant: the counter is bumped twice per draw)
NextPacketNumberTwice(n) == n + 2

\* (variant: a counter that starts over)
NextPacketNumberWrapped(n) == (n + 1) % 2

\* (variant: the draw reads the counter and leaves it)
NextPacketNumberStuck(n) == n

\* `state.packet_number += 1`
NextPacketNumber(n) == n + 1

\* (variant: ids start at 1)
AssignSensorIdOneBased(regs) == (Len(regs) + 1) % U8Size

\* add_sensor(): `self.sensors.len() as u8`
AssignSensorId(regs) == Len(regs) % U8Size

\* (variant: the push comes before the send)
RegistryAfterAddAlways(regs, id, sendOk) == Append(regs, id)

\* add_sensor(): `self.send_sensor_info(&sensor).await?; self.sensors.push(sensor)`
RegistryAfterAdd(regs, id, sendOk) == IF sendOk THEN Append(regs, id) ELSE regs

\* (variant: every datagram publishes)
RxPublishesAlways(st) == TRUE

\* receive branch: `if state.status != "connected-to-server"`
RxPublishes(st) == st # "connected-to-server"

\* (variant: the tick sends whatever the status)
TickSendsHandshakeAlways(st) == TRUE

\* discovery tick: `if state.status != "connected-to-server"`
TickSendsHandshake(st) == st # "connected-to-server"

\* watchdog: `if elapsed > server_timeout_clone`
WatchdogTimedOut(el) == el > ServerTimeout

\* the SbPacket variants a call of this kind can build
PayloadKinds(op) == IF op = "telemetry" THEN TelemetryKinds ELSE {op}

\* a draw of packet_number by anything but a telemetry sender
CountOtherDraw == otherDraws' = otherDraws + 1

(***************************************************************************)
(* init()                                                                  *)
(***************************************************************************)
InitCall ==
    /\ Running /\ callerPc = "idle"
    /\ callerPc' = "init_lock"
    /\ opKind' = "init"
    /\ Silent
    /\ UNCHANGED <<trackerVars, lockVars, inits, emitterVars, watchdogVars, elapsed,
                   opSeq, opSensorId, rx, historyVars>>

InitAcquire ==
    /\ callerPc = "init_lock" /\ stateLock = Free
    /\ stateLock' = Caller
    /\ callerPc' = "init_locked"
    /\ Silent
    /\ UNCHANGED <<trackerVars, lastHeartbeatLock, inits, emitterVars, watchdogVars,
                   elapsed, callVars, historyVars>>

InitCheck ==
    /\ callerPc = "init_locked"
    /\ stateLock' = Free
    /\ wire' = NoPacket
    /\ IF InitIsNoop(status)
         THEN /\ callerPc' = "idle"
              /\ opKind' = "none"
              /\ result' = Ret("init", "ok")
              /\ pubEvent' = "none"
              /\ UNCHANGED <<status, statusBroadcast>>
         ELSE /\ statusBroadcast' = "idle"
              /\ pubEvent' = "idle"
              /\ status' = "idle"
              /\ callerPc' = "init_bind"
              /\ result' = NoResult
              /\ UNCHANGED opKind
    /\ UNCHANGED <<packet_number, socket, sensors, lastHeartbeatLock, inits,
                   emitterVars, watchdogVars, elapsed, opSeq, opSensorId, rx,
                   historyVars>>

\* UdpSocket::bind, set_broadcast, start_heartbeat(), the watchdog's spawn
InitBind ==
    /\ callerPc = "init_bind"
    /\ wire' = NoPacket /\ pubEvent' = "none"
    /\ \E outcome \in {"bound", "bind_failed", "broadcast_failed"} :
         IF outcome = "bound"
           THEN /\ inits < MaxInits
                /\ inits' = inits + 1
                /\ socket' = inits + 1
                /\ emPc' = [emPc EXCEPT ![inits + 1] = "check"]
                /\ elapsed' = [elapsed EXCEPT ![inits + 1] = 0]
                /\ wdPc' = [wdPc EXCEPT ![inits + 1] = "sleep"]
                /\ wdSleep' = [wdSleep EXCEPT ![inits + 1] = ServerTimeout]
                /\ callerPc' = "select"
                /\ result' = NoResult
                /\ UNCHANGED opKind
           ELSE /\ callerPc' = "idle"
                /\ opKind' = "none"
                /\ result' = Ret("init", "err")
                /\ UNCHANGED <<inits, socket, emPc, elapsed, wdPc, wdSleep>>
    /\ UNCHANGED <<status, packet_number, sensors, statusBroadcast, lockVars,
                   opSeq, opSensorId, rx, historyVars>>

\* The receive branch of select! is pending at one of its awaits.
RxPending ==
    \/ callerPc = "select"
    \/ callerPc = "rx_lock" /\ stateLock # Free
    \/ callerPc = "rx_hb_lock" /\ lastHeartbeatLock[inits]
    \/ callerPc = "rx_pn_lock" /\ stateLock # Free
    \/ callerPc = "rx_send"

\* `_ = discovery_interval.tick() =>`: select! drops the receive branch's future
\* (a reply whose send_to is pending is dropped with it, stamped as it is)
DiscoveryTick ==
    /\ Running /\ RxPending
    /\ callerPc' = "tick_lock"
    /\ rx' = NoDatagram
    /\ opSeq' = 0
    /\ usedSeqs' = IF callerPc = "rx_send" THEN usedSeqs \cup {opSeq} ELSE usedSeqs
    /\ Silent
    /\ UNCHANGED <<trackerVars, lockVars, inits, emitterVars, watchdogVars, elapsed,
                   opKind, opSensorId, lastSendSeq, otherDraws, opGap, addCalls,
                   addOk, sensorsAtDeinit>>

TickAcquire ==
    /\ callerPc = "tick_lock" /\ stateLock = Free
    /\ stateLock' = Caller
    /\ callerPc' = "tick_locked"
    /\ Silent
    /\ UNCHANGED <<trackerVars, lastHeartbeatLock, inits, emitterVars, watchdogVars,
                   elapsed, callVars, historyVars>>

\* the tick's handler, send_handshake() included
TickBody ==
    /\ callerPc = "tick_locked"
    /\ stateLock' = Free
    /\ pubEvent' = "none"
    /\ IF TickSendsHandshake(status)
         THEN \E sendOk \in BOOLEAN :
                IF socket # 0 /\ sendOk
                  THEN /\ wire' = Pkt("Handshake", 0, 0)
                       /\ callerPc' = "select"
                       /\ result' = NoResult
                       /\ UNCHANGED opKind
                  ELSE /\ wire' = NoPacket
                       /\ callerPc' = "idle"
                       /\ opKind' = "none"
                       /\ result' = Ret("init", "err")
         ELSE /\ wire' = NoPacket
              /\ callerPc' = "idle"
              /\ opKind' = "none"
              /\ result' = Ret("init", "ok")
    /\ UNCHANGED <<trackerVars, lastHeartbeatLock, inits, emitterVars, watchdogVars,
                   elapsed, opSeq, opSensorId, rx, historyVars>>

\* `socket.recv_from(&mut buf).await`
RecvFrom ==
    /\ Running /\ callerPc = "select" /\ socket # 0
    /\ \E d \in Datagrams :
         IF d.kind = "RecvError"
           THEN /\ rx' = NoDatagram
                /\ callerPc' = "select"
           ELSE /\ rx' = d
                /\ callerPc' = "rx_lock"
    /\ Silent
    /\ UNCHANGED <<trackerVars, lockVars, inits, emitterVars, watchdogVars, elapsed,
                   opKind, opSeq, opSensorId, historyVars>>

RxAcquire ==
    /\ callerPc = "rx_lock" /\ stateLock = Free
    /\ stateLock' = Caller
    /\ callerPc' = "rx_locked"
    /\ Silent
    /\ UNCHANGED <<trackerVars, lastHeartbeatLock, inits, emitterVars, watchdogVars,
                   elapsed, callVars, historyVars>>

\* (variant: the guard of the Session State lock is still alive when the
\* receive branch asks for the last-heartbeat lock)
RxBodyKeepsLock ==
    /\ callerPc = "rx_locked"
    /\ stateLock' = IF rx.kind = "Heartbeat" THEN Caller ELSE Free
    /\ wire' = NoPacket /\ result' = NoResult
    /\ IF RxPublishes(status)
         THEN /\ status' = "connected-to-server"
              /\ statusBroadcast' = "connected-to-server"
              /\ pubEvent' = "connected-to-server"
         ELSE /\ pubEvent' = "none"
              /\ UNCHANGED <<status, statusBroadcast>>
    /\ IF rx.kind = "Heartbeat"
         THEN callerPc' = "rx_hb_lock" /\ rx' = rx
         ELSE IF rx.kind = "Ping"
                THEN callerPc' = "rx_pn_lock" /\ rx' = rx
                ELSE callerPc' = "select" /\ rx' = NoDatagram
    /\ UNCHANGED <<packet_number, socket, sensors, lastHeartbeatLock, inits,
                   emitterVars, watchdogVars, elapsed, opKind, opSeq, opSensorId,
                   historyVars>>

\* status update under the lock, then the decode that picks what follows
RxBody ==
    /\ callerPc = "rx_locked"
    /\ stateLock' = Free
    /\ wire' = NoPacket /\ result' = NoResult
    /\ IF RxPublishes(status)
         THEN /\ status' = "connected-to-server"
              /\ statusBroadcast' = "connected-to-server"
              /\ pubEvent' = "connected-to-server"
         ELSE /\ pubEvent' = "none"
              /\ UNCHANGED <<status, statusBroadcast>>
    /\ IF rx.kind = "Heartbeat"
         THEN callerPc' = "rx_hb_lock" /\ rx' = rx
         ELSE IF rx.kind = "Ping"
                THEN callerPc' = "rx_pn_lock" /\ rx' = rx
                ELSE callerPc' = "select" /\ rx' = NoDatagram
    /\ UNCHANGED <<packet_number, socket, sensors, lastHeartbeatLock, inits,
                   emitterVars, watchdogVars, elapsed, opKind, opSeq, opSensorId,
                   historyVars>>

\* `*last_heartbeat.lock().await = SystemTime::now()`
RxRecordHeartbeat ==
    /\ callerPc = "rx_hb_lock" /\ ~lastHeartbeatLock[inits]
    /\ elapsed' = [elapsed EXCEPT ![inits] = 0]
    /\ callerPc' = "rx_pn_lock"
    /\ Silent
    /\ UNCHANGED <<trackerVars, lockVars, inits, emitterVars, watchdogVars,
                   callVars, historyVars>>

RxPnAcquire ==
    /\ callerPc = "rx_pn_lock" /\ stateLock = Free
    /\ packet_number < MaxPacketNumber
    /\ stateLock' = Caller
    /\ callerPc' = "rx_pn_locked"
    /\ Silent
    /\ UNCHANGED <<trackerVars, lastHeartbeatLock, inits, emitterVars, watchdogVars,
                   elapsed, callVars, historyVars>>

RxGetPacketNumber ==
    /\ callerPc = "rx_pn_locked"
    /\ packet_number' = NextPacketNumber(packet_number)
    /\ opSeq' = packet_number'
    /\ stateLock' = Free
    /\ CountOtherDraw
    /\ callerPc' = "rx_send"
    /\ Silent
    /\ UNCHANGED <<status, socket, sensors, statusBroadcast, lastHeartbeatLock, inits,
                   emitterVars, watchdogVars, elapsed, opKind, opSensorId, rx,
                   lastSendSeq, opGap, addCalls, addOk, sensorsAtDeinit, usedSeqs>>

\* send_packet()'s socket.expect and send_to for the reply; an Err is logged
RxSendTo ==
    /\ callerPc = "rx_send"
    /\ pubEvent' = "none" /\ result' = NoResult
    /\ IF socket = 0
         THEN /\ callerPc' = "panicked"
              /\ wire' = NoPacket
              /\ UNCHANGED <<rx, opSeq, usedSeqs>>
         ELSE /\ \E sendOk \in BOOLEAN :
                   wire' = IF sendOk THEN Pkt(rx.kind, opSeq, rx.challenge)
                                     ELSE NoPacket
              /\ usedSeqs' = usedSeqs \cup {opSeq}
              /\ callerPc' = "select"
              /\ rx' = NoDatagram
              /\ opSeq' = 0
    /\ UNCHANGED <<trackerVars, lockVars, inits, emitterVars, watchdogVars, elapsed,
                   opKind, opSensorId, lastSendSeq, otherDraws, opGap, addCalls,
                   addOk, sensorsAtDeinit>>

(***************************************************************************)
(* deinit()                                                                *)
(***************************************************************************)
DeinitCall ==
    /\ Running /\ callerPc = "idle"
    /\ callerPc' = "deinit_lock"
    /\ opKind' = "deinit"
    /\ Silent
    /\ UNCHANGED <<trackerVars, lockVars, inits, emitterVars, watchdogVars, elapsed,
                   opSeq, opSensorId, rx, historyVars>>

DeinitAcquire ==
    /\ callerPc = "deinit_lock" /\ stateLock = Free
    /\ stateLock' = Caller
    /\ callerPc' = "deinit_locked"
    /\ Silent
    /\ UNCHANGED <<trackerVars, lastHeartbeatLock, inits, emitterVars, watchdogVars,
                   elapsed, callVars, historyVars>>

DeinitBody ==
    /\ callerPc = "deinit_locked"
    /\ stateLock' = Free
    /\ wire' = NoPacket
    /\ IF DeinitIsNoop(status)
         THEN /\ pubEvent' = "none"
              /\ UNCHANGED <<socket, status, statusBroadcast, sensorsAtDeinit>>
         ELSE /\ socket' = 0
              /\ statusBroadcast' = "initializing"
              /\ pubEvent' = "initializing"
              /\ status' = "initializing"
              /\ sensorsAtDeinit' = Len(sensors)
    /\ callerPc' = "idle"
    /\ opKind' = "none"
    /\ result' = Ret("deinit", "ok")
    /\ UNCHANGED <<packet_number, sensors, lastHeartbeatLock, inits, emitterVars,
                   watchdogVars, elapsed, opSeq, opSensorId, rx, lastSendSeq,
                   otherDraws, opGap, addCalls, addOk, usedSeqs>>

(***************************************************************************)
(* add_sensor() and the telemetry senders, all through send_packet()       *)
(***************************************************************************)
\* send_rotation .. send_user_action: each builds its payload and calls send_packet();
\* the payload variant plays no part before the packet is built in SendTo
SendCall ==
    /\ Running /\ callerPc = "idle"
    /\ opKind' = "telemetry"
    /\ callerPc' = "send_lock"
    /\ Silent
    /\ UNCHANGED <<trackerVars, lockVars, inits, emitterVars, watchdogVars, elapsed,
                   opSeq, opSensorId, rx, historyVars>>

AddSensorCall ==
    /\ Running /\ callerPc = "idle"
    /\ addCalls < MaxAddCalls
    /\ opKind' = "SensorInfo"
    /\ opSensorId' = AssignSensorId(sensors)
    /\ addCalls' = addCalls + 1
    /\ callerPc' = "send_lock"
    /\ Silent
    /\ UNCHANGED <<trackerVars, lockVars, inits, emitterVars, watchdogVars, elapsed,
                   opSeq, rx, lastSendSeq, otherDraws, opGap, addOk,
                   sensorsAtDeinit, usedSeqs>>

SendAcquire ==
    /\ callerPc = "send_lock" /\ stateLock = Free
    /\ packet_number < MaxPacketNumber
    /\ stateLock' = Caller
    /\ callerPc' = "send_locked"
    /\ Silent
    /\ UNCHANGED <<trackerVars, lastHeartbeatLock, inits, emitterVars, watchdogVars,
                   elapsed, callVars, historyVars>>

GetPacketNumber ==
    /\ callerPc = "send_locked"
    /\ packet_number' = NextPacketNumber(packet_number)
    /\ opSeq' = packet_number'
    /\ stateLock' = Free
    /\ IF opKind = "telemetry"
         THEN opGap' = otherDraws /\ otherDraws' = 0
         ELSE CountOtherDraw /\ UNCHANGED opGap
    /\ callerPc' = "send_socket"
    /\ Silent
    /\ UNCHANGED <<status, socket, sensors, statusBroadcast, lastHeartbeatLock, inits,
                   emitterVars, watchdogVars, elapsed, opKind, opSensorId, rx,
                   lastSendSeq, addCalls, addOk, sensorsAtDeinit, usedSeqs>>

\* `self.socket.as_ref().expect(..)`, send_to, and add_sensor()'s push
SendTo ==
    /\ callerPc = "send_socket"
    /\ pubEvent' = "none"
    /\ IF socket = 0
         THEN /\ callerPc' = "panicked"
              /\ wire' = NoPacket
              /\ result' = NoResult
              /\ UNCHANGED <<opKind, opSeq, opSensorId, sensors, lastSendSeq,
                             otherDraws, opGap, addOk, usedSeqs>>
         ELSE \E sendOk \in BOOLEAN, k \in PayloadKinds(opKind) :
                /\ wire' = IF sendOk THEN Pkt(k, opSeq, 0) ELSE NoPacket
                /\ usedSeqs' = usedSeqs \cup {opSeq}
                /\ result' = Ret(k, IF sendOk THEN "ok" ELSE "err")
                /\ IF opKind = "SensorInfo"
                     THEN /\ sensors' = RegistryAfterAdd(sensors, opSensorId, sendOk)
                          /\ addOk' = IF sendOk THEN addOk + 1 ELSE addOk
                          /\ UNCHANGED <<lastSendSeq, otherDraws, opGap>>
                     ELSE /\ lastSendSeq' = IF sendOk THEN opSeq ELSE lastSendSeq
                          /\ otherDraws' = IF sendOk THEN otherDraws
                                                     ELSE opGap + 1 + otherDraws
                          /\ opGap' = IF sendOk THEN opGap ELSE 0
                          /\ UNCHANGED <<sensors, addOk>>
                /\ callerPc' = "idle"
                /\ opKind' = "none"
                /\ opSeq' = 0
                /\ opSensorId' = 0
    /\ UNCHANGED <<status, packet_number, socket, statusBroadcast, lockVars, inits,
                   emitterVars, watchdogVars, elapsed, rx, addCalls, sensorsAtDeinit>>

(***************************************************************************)
(* Heartbeat Emitter task                                                  *)
(***************************************************************************)
\* `if status_rx.borrow().as_str() == "initializing" { break }`
EmCheck(e) ==
    /\ Running /\ emPc[e] = "check"
    /\ emPc' = [emPc EXCEPT ![e] =
                  IF statusBroadcast = "initializing" THEN "done" ELSE "lock"]
    /\ Silent
    /\ UNCHANGED <<trackerVars, lockVars, inits, watchdogVars, elapsed, callerPc,
                   callVars, historyVars>>

EmAcquire(e) ==
    /\ Running /\ emPc[e] = "lock" /\ stateLock = Free
    /\ packet_number < MaxPacketNumber
    /\ stateLock' = Em(e)
    /\ emPc' = [emPc EXCEPT ![e] = "locked"]
    /\ Silent
    /\ UNCHANGED <<trackerVars, lastHeartbeatLock, inits, watchdogVars, elapsed,
                   callerPc, callVars, historyVars>>

\* the increment under the lock, the send on the task's own socket clone, the sleep
EmBeat(e) ==
    /\ Running /\ emPc[e] = "locked"
    /\ packet_number' = NextPacketNumber(packet_number)
    /\ stateLock' = Free
    /\ CountOtherDraw
    /\ \E sendOk \in BOOLEAN :
         wire' = IF sendOk THEN Pkt("Heartbeat", packet_number', 0) ELSE NoPacket
    /\ pubEvent' = "none" /\ result' = NoResult
    /\ usedSeqs' = usedSeqs \cup {packet_number'}
    /\ emPc' = [emPc EXCEPT ![e] = "check"]
    /\ UNCHANGED <<status, socket, sensors, statusBroadcast, lastHeartbeatLock, inits,
                   watchdogVars, elapsed, callerPc, callVars, lastSendSeq, opGap,
                   addCalls, addOk, sensorsAtDeinit>>

(***************************************************************************)
(* Liveness Watchdog task                                                  *)
(***************************************************************************)
\* sleep over; `last_heartbeat_clone.lock().await`; the elapsed test
WdWake(w) ==
    /\ Running /\ wdPc[w] = "sleep" /\ wdSleep[w] = 0
    /\ ~lastHeartbeatLock[w]
    /\ IF WatchdogTimedOut(elapsed[w])
         THEN /\ lastHeartbeatLock' = [lastHeartbeatLock EXCEPT ![w] = TRUE]
              /\ wdPc' = [wdPc EXCEPT ![w] = "lock"]
              /\ UNCHANGED wdSleep
         ELSE /\ wdSleep' = [wdSleep EXCEPT ![w] = ServerTimeout]
              /\ UNCHANGED <<lastHeartbeatLock, wdPc>>
    /\ Silent
    /\ UNCHANGED <<trackerVars, stateLock, inits, emitterVars, elapsed, callerPc,
                   callVars, historyVars>>

WdAcquire(w) ==
    /\ Running /\ wdPc[w] = "lock" /\ stateLock = Free
    /\ stateLock' = Wd(w)
    /\ wdPc' = [wdPc EXCEPT ![w] = "locked"]
    /\ Silent
    /\ UNCHANGED <<trackerVars, lastHeartbeatLock, inits, emitterVars, wdSleep,
                   elapsed, callerPc, callVars, historyVars>>

\* `state.status = "initializing"`, both guards dropped, back to sleep
WdForce(w) ==
    /\ Running /\ wdPc[w] = "locked"
    /\ status' = "initializing"
    /\ stateLock' = Free
    /\ lastHeartbeatLock' = [lastHeartbeatLock EXCEPT ![w] = FALSE]
    /\ wdPc' = [wdPc EXCEPT ![w] = "sleep"]
    /\ wdSleep' = [wdSleep EXCEPT ![w] = ServerTimeout]
    /\ Silent
    /\ UNCHANGED <<packet_number, socket, sensors, statusBroadcast, inits,
                   emitterVars, elapsed, callerPc, callVars, historyVars>>

(***************************************************************************)
(* Time                                                                    *)
(***************************************************************************)
Min(a, b) == IF a < b THEN a ELSE b
Max(a, b) == IF a > b THEN a ELSE b

\* one clock tick: sleeps get shorter, last_heartbeat gets older
\* (elapsed saturates right above the timeout, where the test no longer changes)
TimePasses ==
    /\ Running
    /\ \E w \in Tasks : wdPc[w] # "unborn"
    /\ wdSleep' = [w \in Tasks |-> Max(wdSleep[w] - 1, 0)]
    /\ elapsed' = [w \in Tasks |->
                     IF wdPc[w] = "unborn" THEN elapsed[w]
                     ELSE Min(elapsed[w] + 1, ServerTimeout + 1)]
    /\ <<wdSleep', elapsed'>> # <<wdSleep, elapsed>>
    /\ Silent
    /\ UNCHANGED <<trackerVars, lockVars, inits, emitterVars, wdPc, callerPc,
                   callVars, historyVars>>

Next ==
    \/ InitCall \/ InitAcquire \/ InitCheck \/ InitBind
    \/ DiscoveryTick \/ TickAcquire \/ TickBody
    \/ RecvFrom \/ RxAcquire \/ RxBody \/ RxRecordHeartbeat
    \/ RxPnAcquire \/ RxGetPacketNumber \/ RxSendTo
    \/ DeinitCall \/ DeinitAcquire \/ DeinitBody
    \/ SendCall \/ AddSensorCall \/ SendAcquire \/ GetPacketNumber \/ SendTo
    \/ \E e \in Tasks : EmCheck(e) \/ EmAcquire(e) \/ EmBeat(e)
    \/ \E w \in Tasks : WdWake(w) \/ WdAcquire(w) \/ WdForce(w)
    \/ TimePasses

Spec == Init /\ [][Next]_vars

\* The scheduling init()'s control loop can rely on: the interval's tick wins the
\* select! again and again, the caller's task and the watchdogs are run when they
\* can take a step, a task waiting for a lock gets it (tokio's Mutex queues its
\* waiters), a task holding the Session State lock runs on to the release, and
\* time passes.  Nothing is assumed of the server, of the transport, of the
\* caller or of how often an emitter gets to start a round.
LoopFairness ==
    /\ SF_vars(DiscoveryTick)
    /\ SF_vars(TickAcquire) /\ WF_vars(TickBody)
    /\ SF_vars(RxAcquire) /\ WF_vars(RxBody)
    /\ SF_vars(RxRecordHeartbeat)
    /\ SF_vars(RxPnAcquire) /\ WF_vars(RxGetPacketNumber) /\ WF_vars(RxSendTo)
    /\ \A e \in Tasks : WF_vars(EmBeat(e))
    /\ \A w \in Tasks : WF_vars(WdWake(w)) /\ SF_vars(WdAcquire(w)) /\ WF_vars(WdForce(w))
    /\ WF_vars(TimePasses)

FairSpec == Spec /\ LoopFairness

\* The runs checked for the progress of lock requests: every action of Next,
\* with at most MaxLockSessions successful binds.
LockNext ==
    \/ InitCall \/ InitAcquire \/ InitCheck
    \/ (InitBind /\ inits' <= MaxLockSessions)
    \/ DiscoveryTick \/ TickAcquire \/ TickBody
    \/ RecvFrom \/ RxAcquire \/ RxBody \/ RxRecordHeartbeat
    \/ RxPnAcquire \/ RxGetPacketNumber \/ RxSendTo
    \/ DeinitCall \/ DeinitAcquire \/ DeinitBody
    \/ SendCall \/ AddSensorCall \/ SendAcquire \/ GetPacketNumber \/ SendTo
    \/ \E e \in Tasks : EmCheck(e) \/ EmAcquire(e) \/ EmBeat(e)
    \/ \E w \in Tasks : WdWake(w) \/ WdAcquire(w) \/ WdForce(w)
    \/ TimePasses

\* The scheduling the locks can rely on: a task waiting for a lock gets it when
\* the lock is free again and again (tokio's Mutex queues its waiters), and a
\* task holding a lock runs on to the release.  Nothing is assumed of the
\* server, of the transport, of the clock or of the caller.
LockFairness ==
    /\ SF_vars(InitAcquire \/ TickAcquire \/ RxAcquire \/ RxRecordHeartbeat
                 \/ RxPnAcquire \/ DeinitAcquire \/ SendAcquire)
    /\ WF_vars(InitCheck \/ TickBody \/ RxBody \/ RxGetPacketNumber
                 \/ DeinitBody \/ GetPacketNumber)
    /\ \A e \in Tasks : SF_vars(EmAcquire(e)) /\ WF_vars(EmBeat(e))
    /\ \A w \in Tasks : SF_vars(WdAcquire(w)) /\ WF_vars(WdForce(w))

LockFairSpec == Init /\ [][LockNext]_vars /\ LockFairness

(***************************************************************************)
(* Steps the properties below speak about.                                 *)
(***************************************************************************)
\* a telemetry sender returns Ok
TelemetrySent ==
    callerPc = "send_socket" /\ opKind = "telemetry" /\ result'.value = "ok"

\* add_sensor() returns
AddSensorReturns ==
    callerPc = "send_socket" /\ opKind = "SensorInfo" /\ callerPc' = "idle"

\* init() decides under the lock, the session not being Initializing
InitOnLiveSession ==
    callerPc = "init_locked" /\ status # "initializing" /\ callerPc' # callerPc

\* deinit() decides under the lock, the session being Initializing
DeinitOnDeadSession ==
    callerPc = "deinit_locked" /\ status = "initializing" /\ callerPc' # callerPc

\* the receive branch updates the status for a datagram that decodes
RxStatusStep ==
    callerPc = "rx_locked" /\ rx.kind # "Malformed" /\ callerPc' # callerPc

\* the receive branch is done with a Ping it received
PingLeavesLoop == rx.kind = "Ping" /\ rx' = NoDatagram

\* a watchdog resets the status of a connected session whose init() has returned
WatchdogExpires ==
    /\ callerPc = "idle" /\ status = "connected-to-server"
    /\ \E w \in Tasks : wdPc[w] = "locked" /\ wdPc'[w] = "sleep"

(***************************************************************************)
(* C1                                                                      *)
(***************************************************************************)
\* C1 (as claimed): on a connected session, the packet number of each successful
\* send_* call is exactly 1 greater than that of the previous successful send_* call.
C1_SendsConsecutive ==
    [][(TelemetrySent /\ lastSendSeq # 0 /\ status = "connected-to-server")
          => opSeq = lastSendSeq + 1]_vars

\* C1 (amended): the packet number of each successful send_* call is greater than
\* that of the previous successful send_* call by exactly 1 plus the number of
\* packet numbers drawn in between by anything else (emitter heartbeats, replies
\* of the receive branch, SensorInfo announces, send_* calls that failed); so it
\* is strictly increasing, never repeated, and consecutive only when nothing else
\* drew a number in between.  deinit() and init() do not touch the counter.
C1_SendsIncreaseByDraws ==
    [][TelemetrySent =>
         /\ opSeq = lastSendSeq + 1 + opGap
         /\ opSeq > lastSendSeq
         /\ wire' = Pkt(result'.op, opSeq, 0)
         /\ lastSendSeq' = opSeq]_vars

\* a second successful send_* whose number is not consecutive
C1_Witness ==
    /\ result.value = "ok" /\ result.op \in TelemetryKinds
    /\ opGap > 0 /\ lastSendSeq > opGap + 1
    /\ wire.seq = lastSendSeq

(***************************************************************************)
(* C2                                                                      *)
(***************************************************************************)
\* C2: between the caller's operations, the tracker holds a socket if and only
\* if status is not Initializing.
C2_SocketIffNotInitializing ==
    (callerPc = "idle" /\ stateLock = Free) =>
        ((socket # 0) <=> (status # "initializing"))

(***************************************************************************)
(* C3                                                                      *)
(***************************************************************************)
\* C3: init() on a session that is not Initializing returns Ok and changes
\* nothing: no bind, no Handshake, no spawn, no publication, and status,
\* packet_number, socket and registry as they were.
C3_InitNoop ==
    [][InitOnLiveSession =>
         /\ result' = Ret("init", "ok")
         /\ callerPc' = "idle"
         /\ wire' = NoPacket
         /\ pubEvent' = "none"
         /\ UNCHANGED <<status, packet_number, socket, sensors, statusBroadcast,
                        inits, emPc, wdPc>>]_vars

\* init() has just returned Ok on a session that a failed init() left Idle
C3_Witness == result = Ret("init", "ok") /\ status = "idle" /\ callerPc = "idle"

(***************************************************************************)
(* C4                                                                      *)
(***************************************************************************)
\* C4: deinit() on an Initializing session returns Ok, changes nothing, and the
\* socket reference is absent afterwards.
C4_DeinitNoopNoSocket ==
    [][DeinitOnDeadSession =>
         /\ result' = Ret("deinit", "ok")
         /\ socket' = 0
         /\ UNCHANGED <<status, packet_number, socket, sensors, statusBroadcast>>]_vars

C7_NoPanic == callerPc # "panicked"

C9_PingEchoed ==
    [][PingLeavesLoop =>
         /\ callerPc = "rx_send" /\ callerPc' = "select"
         /\ wire' \in {Pkt("Ping", opSeq, rx.challenge), NoPacket}]_vars

(***************************************************************************)
(* C10                                                                     *)
(***************************************************************************)
\* C10: when the watchdog's timeout expires on a connected session, status
\* becomes Initializing and the tracker's socket reference is cleared.
C10_TimeoutClearsSocket ==
    [][WatchdogExpires => (status' = "initializing" /\ socket' = 0)]_vars

(***************************************************************************)
(* C11                                                                     *)
(***************************************************************************)
\* C11: whenever the Session State lock is free, the latest value on the Status
\* Broadcast equals the status held in Session State.
C11_BroadcastEqualsStatus == stateLock = Free => statusBroadcast = status

(***************************************************************************)
(* C12                                                                     *)
(***************************************************************************)
\* a step of init(), of deinit() or of a watchdog
LifecycleStep ==
    \/ callerPc \in {"init_lock", "init_locked", "init_bind", "select", "tick_lock",
                     "tick_locked", "deinit_lock", "deinit_locked"}
         /\ callerPc' # callerPc
    \/ wdPc' # wdPc

\* C12: packet_number never decreases and is never set back to 0: a step either
\* leaves it alone or is a draw, made under the Session State lock by a sender,
\* by the receive path's reply or by an emitter, that adds 1; the steps of
\* init(), of deinit() and of the watchdogs leave it alone.
C12_PacketNumberNeverDecreases ==
    [][/\ packet_number' >= packet_number
       /\ packet_number' # packet_number =>
            /\ packet_number' = packet_number + 1
            /\ stateLock # Free /\ stateLock' = Free
            /\ \/ stateLock = Caller /\ callerPc \in {"send_locked", "rx_pn_locked"}
               \/ \E e \in Tasks : stateLock = Em(e) /\ emPc[e] = "locked"
       /\ LifecycleStep => packet_number' = packet_number]_vars

\* a packet stamped with the highest number goes out on the second socket, bound
\* after a deinit() that released the first
C12_Witness ==
    /\ inits = 2 /\ socket = 2
    /\ sensorsAtDeinit = 1
    /\ packet_number = MaxPacketNumber
    /\ wire.seq = MaxPacketNumber

(***************************************************************************)
(* C13                                                                     *)
(***************************************************************************)
\* C13: init() returns an error only from the bind or from set_broadcast; a
\* fault inside the control loop never makes it return an error.
C13_ErrOnlyFromBind ==
    [][result' = Ret("init", "err") => callerPc = "init_bind"]_vars

(***************************************************************************)
(* C14                                                                     *)
(***************************************************************************)
\* the positions of init()'s control loop
LoopPcs ==
    {"select", "tick_lock", "tick_locked", "rx_lock", "rx_locked", "rx_hb_lock",
     "rx_pn_lock", "rx_pn_locked", "rx_send"}

\* C14: once status is ConnectedToServer while init()'s control loop runs, init()
\* eventually returns (Ok, says the claim; here: returns at all, or the run ends
\* at the bound of the counter), watchdogs of this and of earlier init() calls
\* running or not; and init() returns Ok from the loop only on a tick that
\* observes ConnectedToServer.
C14_InitReturnsOnceConnected ==
    /\ (callerPc \in LoopPcs /\ status = "connected-to-server")
         ~> (result.op = "init" \/ packet_number = MaxPacketNumber)
    /\ [][(callerPc \in LoopPcs /\ result' = Ret("init", "ok"))
            => (callerPc = "tick_locked" /\ status = "connected-to-server")]_vars

(***************************************************************************)
(* C15                                                                     *)
(***************************************************************************)
\* the receive branch updates the status for a datagram that does not decode
RxMalformedStep ==
    callerPc = "rx_locked" /\ rx.kind = "Malformed" /\ callerPc' # callerPc

\* C15: a received datagram that fails to decode changes neither status nor the
\* Status Broadcast, and publishes nothing.
C15_DecodeFailureChangesNothing ==
    [][RxMalformedStep =>
         (pubEvent' = "none" /\ UNCHANGED <<status, statusBroadcast>>)]_vars

(***************************************************************************)
(* C16                                                                     *)
(***************************************************************************)
\* the emitter tasks that were spawned and have not left their loop
RunningEmitters == {e \in Tasks : emPc[e] \notin {"unborn", "done"}}

\* those of them that are past the test of the Status Broadcast, in a round that
\* sends a Heartbeat
EmittersInRound == {e \in RunningEmitters : emPc[e] # "check"}

\* C16: at most one Heartbeat Emitter task is running at any time; so at most
\* one is in a round of its loop.
C16_AtMostOneEmitter == Cardinality(EmittersInRound) <= 1

(***************************************************************************)
(* C17                                                                     *)
(***************************************************************************)
\* emitter e reads the Status Broadcast at the top of its loop
EmitterChecks(e) == emPc[e] = "check" /\ emPc'[e] # "check"

\* C17: an emitter that looks at the Status Broadcast while the session's status
\* is Initializing (no transition being under way) makes its terminal
\* observation and leaves its loop, whether deinit() or a watchdog set the status.
C17_EmitterSeesInitializing ==
    [][\A e \in Tasks :
         (EmitterChecks(e) /\ status = "initializing" /\ stateLock = Free)
            => emPc'[e] = "done"]_vars

(***************************************************************************)
(* C18                                                                     *)
(***************************************************************************)
\* watchdog w overwrites the status
WatchdogForces(w) == wdPc[w] = "locked" /\ wdPc'[w] = "sleep"

\* the receive loop is still busy with a server Heartbeat it recorded less than
\* a timeout ago
HeartbeatInWindow ==
    /\ rx.kind = "Heartbeat"
    /\ callerPc \in {"rx_pn_lock", "rx_pn_locked", "rx_send"}
    /\ ~WatchdogTimedOut(elapsed[inits])

\* C18 (the case the claim singles out): no watchdog, one spawned by an earlier
\* init() included, forces status to Initializing while the current session's
\* receive loop has observed a server Heartbeat within the timeout window.
C18_NoForceAfterHeartbeat ==
    [][\A w \in Tasks : WatchdogForces(w) => ~HeartbeatInWindow]_vars

(***************************************************************************)
(* C19                                                                     *)
(***************************************************************************)
\* the handler of a discovery tick runs, the lock taken
TickStep == callerPc = "tick_locked" /\ callerPc' # callerPc

\* C19: a tick that finds status != ConnectedToServer sends a Handshake (which
\* goes out, or the transport refuses it and init() ends with that error); a
\* tick that finds ConnectedToServer sends nothing and ends the loop, so no
\* Handshake follows it; a Handshake comes from such a tick alone, carries
\* sequence number 0, and a tick leaves packet_number as it was.
C19_HandshakeIffNotConnected ==
    [][/\ (TickStep /\ status # "connected-to-server") =>
            \/ wire' = Pkt("Handshake", 0, 0) /\ callerPc' = "select"
            \/ wire' = NoPacket /\ result' = Ret("init", "err")
       /\ (TickStep /\ status = "connected-to-server") =>
            /\ wire' = NoPacket
            /\ callerPc' = "idle" /\ result' = Ret("init", "ok")
       /\ wire'.kind = "Handshake" =>
            /\ TickStep /\ status # "connected-to-server"
            /\ wire'.seq = 0
       /\ TickStep => packet_number' = packet_number]_vars

\* a Handshake with sequence number 0 went out after packet numbers were drawn,
\* on a session a watchdog had set back to Initializing
C19_Witness ==
    /\ wire = Pkt("Handshake", 0, 0)
    /\ packet_number > 0
    /\ status = "initializing"
    /\ callerPc = "select"

(***************************************************************************)
(* C20                                                                     *)
(***************************************************************************)
\* the caller's task (a sender, add_sensor, a reply of the receive branch) is
\* done with a send_to of a packet stamped with the number it drew
CallerStamps ==
    callerPc \in {"send_socket", "rx_send"} /\ socket # 0 /\ callerPc' # callerPc

\* emitter e draws a number and hands its Heartbeat to send_to
EmitterStamps(e) == emPc[e] = "locked" /\ emPc'[e] # "locked"

\* C20: no two packets that draw their sequence number from packet_number carry
\* the same number: whoever stamps a packet (sender, add_sensor, reply, any of
\* the running emitters) stamps a number drawn under the Session State lock that
\* no packet was stamped with before, and a packet that goes out other than a
\* Handshake carries such a number.
C20_NoSeqReused ==
    [][/\ CallerStamps => (opSeq \in 1..packet_number /\ opSeq \notin usedSeqs)
       /\ \A e \in Tasks :
            EmitterStamps(e) =>
               (stateLock = Em(e) /\ packet_number' \notin usedSeqs
                  /\ packet_number' > packet_number)
       /\ opSeq' \notin {0, opSeq} =>
            (stateLock = Caller /\ opSeq' = packet_number'
               /\ packet_number' > packet_number)
       /\ wire'.kind \notin {"none", "Handshake"} =>
            wire'.seq \in usedSeqs' \ usedSeqs]_vars

\* with two emitters running, the caller's packet goes out with number 1 after
\* the numbers 2 and 3, drawn later, went out
C20_Witness ==
    /\ wire.kind \in TelemetryKinds /\ wire.seq = 1
    /\ usedSeqs = {1, 2, 3}
    /\ Cardinality(RunningEmitters) = 2

(***************************************************************************)
(* C21                                                                     *)
(***************************************************************************)
\* init() returns the error of a failed bind or set_broadcast
InitBindFails == callerPc = "init_bind" /\ result' = Ret("init", "err")

\* C21: an init() that fails at the bind or at set_broadcast leaves the session
\* as it was before the call: status Initializing, Status Broadcast
\* 'initializing', no socket (so that the next init() binds again).
C21_FailedInitRestores ==
    [][InitBindFails =>
         /\ status' = "initializing"
         /\ statusBroadcast' = "initializing"
         /\ socket' = 0]_vars

(***************************************************************************)
(* C22                                                                     *)
(***************************************************************************)
\* C22: status leaves Initializing only by init()'s step to Idle; it never goes
\* from Initializing to ConnectedToServer in one step.
C22_InitializingOnlyToIdle ==
    [][(status = "initializing" /\ status' # status) =>
         (status' = "idle" /\ callerPc = "init_locked")]_vars

(***************************************************************************)
(* C23                                                                     *)
(***************************************************************************)
\* where the caller's task holds the Session State lock
CallerLockedPcs ==
    {"init_locked", "tick_locked", "rx_locked", "rx_pn_locked", "deinit_locked",
     "send_locked"}

\* the request of a draw that the bound of the counter keeps from being served
AtCounterBound == packet_number = MaxPacketNumber

\* the order of the two locks: a watchdog asks for the Session State lock while
\* it holds its last-heartbeat lock, and it alone holds that lock; the receive
\* loop asks for the last-heartbeat lock with the Session State lock released;
\* whoever holds the Session State lock is in its critical section
LockOrder ==
    /\ \A w \in Tasks : lastHeartbeatLock[w] <=> wdPc[w] \in {"lock", "locked"}
    /\ callerPc = "rx_hb_lock" => stateLock # Caller
    /\ stateLock = Caller <=> callerPc \in CallerLockedPcs
    /\ \A e \in Tasks : stateLock = Em(e) <=> emPc[e] = "locked"
    /\ \A w \in Tasks : stateLock = Wd(w) <=> wdPc[w] = "locked"

\* a lock that is held has a holder whose next step, the release, can be taken
NoLockStuck ==
    Running =>
      /\ stateLock = Caller =>
           ENABLED (InitCheck \/ TickBody \/ RxBody \/ RxGetPacketNumber
                      \/ DeinitBody \/ GetPacketNumber)
      /\ \A e \in Tasks : stateLock = Em(e) => ENABLED EmBeat(e)
      /\ \A w \in Tasks : stateLock = Wd(w) => ENABLED WdForce(w)
      /\ \A w \in Tasks :
           lastHeartbeatLock[w] =>
              \/ wdPc[w] = "locked"
              \/ stateLock # Free
              \/ ENABLED WdAcquire(w)

\* where the caller's task waits for a lock
CallerWaitPcs ==
    {"init_lock", "tick_lock", "rx_lock", "rx_hb_lock", "rx_pn_lock",
     "deinit_lock", "send_lock"}

\* no task waits for a lock for ever: each is again and again not waiting (its
\* request granted, or given up for the tick's when select! drops the receive
\* branch), unless the counter is at its bound or the caller has panicked
LockRequestsGranted ==
    /\ []<>(callerPc \notin CallerWaitPcs \/ AtCounterBound)
    /\ \A e \in Tasks : []<>(emPc[e] # "lock" \/ AtCounterBound \/ ~Running)
    /\ \A w \in Tasks : []<>(wdPc[w] # "lock" \/ ~Running)

\* C23: the two locks never deadlock: a watchdog takes the Session State lock
\* while holding its last-heartbeat lock, no other task waits for a
\* last-heartbeat lock while holding the Session State lock, a held lock can
\* always be released, and every request for a lock is eventually granted.
C23_NoLockDeadlock == []LockOrder /\ []NoLockStuck /\ LockRequestsGranted

\* the receive loop waits for the last-heartbeat lock that a watchdog holds,
\* the watchdog waits for the Session State lock that an emitter holds
C23_Witness ==
    /\ callerPc = "rx_hb_lock" /\ lastHeartbeatLock[inits]
    /\ wdPc[inits] = "lock"
    /\ \E e \in Tasks : stateLock = Em(e)

====
